---- MODULE Spec2Model ----
(***************************************************************************)
(* The capture / dispatch / aggregate / deliver pipeline of ScreenScrapper *)
(* (core_loop.py, ai_clients.py, screen_utils.py, output_utils.py,         *)
(* main.py) as a state machine.                                            *)
(*                                                                         *)
(* All coroutines run on one asyncio event loop, so an action is the code  *)
(* a task runs between two suspension points.  Texts are sequences of      *)
(* tokens; " " and "\n" are the whitespace tokens.                         *)
(***************************************************************************)
EXTENDS Integers, Sequences, FiniteSets, TLC

VARIABLES
    api_keys,               \* config.py: providers whose API key is set in .env
    models_to_use,          \* main.py get_user_input: enabled providers, in order
    interval,               \* main.py get_user_input: seconds between captures
    notify_enabled,         \* main.py get_user_input
    email_enabled,          \* main.py get_user_input
    email_recipient,        \* main.py get_user_input
    click_coords,           \* main.py global: the clicks of the region selection
    capture_region,         \* main.py get_user_input: the region to capture
    capture_counter,        \* core_loop.py global
    capture_scraped_text,   \* core_loop.py global: capture id -> sample text
    tasks,                  \* provider tasks created by process_capture
    results_queue,          \* asyncio.Queue of (capture_id, model_name, text)
    log_file,               \* entries appended to LOG_FILE
    email_tasks,            \* pending send_email tasks
    dispatcher,             \* state of the run_capture_loop task
    consumer,               \* state of the handle_results task
    consumer_active,        \* handle_results is inside a burst (queue not drained)
    main_task,              \* state of main()
    elapsed_time,           \* run_capture_loop local, last tick
    sleep_duration,         \* run_capture_loop local, last tick
    overrun_warning,        \* whether the last tick printed the warning
    io_failures,            \* sink / file failures the environment has injected
    enqueued,               \* history: every record ever put on results_queue
    capture_trace,          \* history: per tick, what the OCR did and the tick's duration
    sink_trace,             \* history: per dequeued record, the sinks invoked
    minted,                 \* capture ids as process_capture formats them
    capture_loop            \* run_capture_loop: the calls of process_capture not
                            \* yet returned, and whether it is in its sleep

vars == << api_keys, models_to_use, interval, notify_enabled, email_enabled,
           email_recipient, capture_counter, capture_scraped_text, tasks,
           results_queue, log_file, email_tasks, dispatcher, consumer,
           consumer_active, main_task, elapsed_time, sleep_duration,
           overrun_warning, io_failures, enqueued, capture_trace,
           sink_trace, click_coords, capture_region, minted,
           capture_loop >>

config_vars == << api_keys, models_to_use, interval, notify_enabled, email_enabled,
                  email_recipient, click_coords, capture_region >>

----------------------------------------------------------------------------
(* Bounds of the model *)

MaxTicks == 2

MaxIoFailures == 1

----------------------------------------------------------------------------
(* Values *)

None == "None"

Max(a, b) == IF a >= b THEN a ELSE b

Whitespace == {" ", "\n"}

RECURSIVE lstrip(_)
lstrip(t) ==
    IF t = << >> THEN << >>
    ELSE IF Head(t) \in Whitespace THEN lstrip(Tail(t)) ELSE t

RECURSIVE rstrip(_)
rstrip(t) ==
    IF t = << >> THEN << >>
    ELSE IF t[Len(t)] \in Whitespace THEN rstrip(SubSeq(t, 1, Len(t) - 1)) ELSE t

strip(t) == rstrip(lstrip(t))

Contains(t, tok) == \E i \in 1..Len(t) : t[i] = tok

\* str.splitlines(): the lines between "\n" tokens, no empty last line
RECURSIVE splitlines(_)
splitlines(t) ==
    IF t = << >> THEN << >>
    ELSE LET nl == { i \in 1..Len(t) : t[i] = "\n" }
         IN  IF nl = {} THEN << t >>
             ELSE LET k == CHOOSE i \in nl : \A j \in nl : i <= j
                  IN  << SubSeq(t, 1, k - 1) >> \o splitlines(SubSeq(t, k + 1, Len(t)))

\* "\n".join(lines)
RECURSIVE join_lines(_)
join_lines(ls) ==
    IF ls = << >> THEN << >>
    ELSE IF Len(ls) = 1 THEN ls[1]
    ELSE ls[1] \o << "\n" >> \o join_lines(Tail(ls))

IsNonBlank(line) == strip(line) # << >>

----------------------------------------------------------------------------
(* screen_utils.py *)

OcrTag == "OCR Error"

\* What mss / pytesseract do in one capture: OCR text, or an exception
OcrText(raw) == [ kind |-> "text", raw |-> raw ]

OcrRaises(exception) == [ kind |-> exception, raw |-> << >> ]

Returned(t) == [ kind |-> "returned", text |-> t ]

Raised(e) == [ kind |-> "raised", text |-> << e >> ]

\* a coroutine left by asyncio.CancelledError: its task ends cancelled
Cancelled == [ kind |-> "cancelled", text |-> << >> ]

\* lines 51-55: strip, drop the whitespace-only lines, join, strip
clean_text(raw) ==
    strip(join_lines(SelectSeq(splitlines(strip(raw)), IsNonBlank)))

\* the capture with only the handler for a missing Tesseract
capture_and_ocr_unguarded(ocr) ==
    CASE ocr.kind = "text" -> Returned(clean_text(ocr.raw))
      [] ocr.kind = "FileNotFoundError" ->
            Returned(<< OcrTag, ":", "Error: Tesseract executable not found" >>)
      [] OTHER -> Raised(ocr.kind)

\* lines 27-69: every exception is turned into an "OCR Error: ..." string
capture_and_ocr(ocr) ==
    CASE ocr.kind = "text" -> Returned(clean_text(ocr.raw))
      [] ocr.kind = "FileNotFoundError" ->
            Returned(<< OcrTag, ":", "Error: Tesseract executable not found" >>)
      [] OTHER -> Returned(<< OcrTag, ":", "Exception" >>)

----------------------------------------------------------------------------
(* ai_clients.py *)

Providers == << "gemini", "chatgpt", "perplexity" >>

ProviderSet == { Providers[i] : i \in 1..Len(Providers) }

Sentinel == "NO_QUESTION_DETECTED"

\* What the Gemini API call under asyncio.wait_for can do
ApiResponse(raw) == [ kind |-> "response", candidates |-> TRUE, raw |-> raw ]

ApiNoCandidates == [ kind |-> "response", candidates |-> FALSE, raw |-> << >> ]

ApiRaises(exception) == [ kind |-> exception, candidates |-> FALSE, raw |-> << >> ]

\* an exception whose message the console cannot encode: the print in the
\* handler of line 127 raises in its turn
ApiRaisesUnprintable ==
    [ kind |-> "Exception", candidates |-> FALSE, raw |-> << "unprintable" >> ]

\* The placeholders only sleep and return
SleepOutcome == [ kind |-> "slept", candidates |-> FALSE, raw |-> << >> ]

\* the call without the except clause for asyncio.TimeoutError: a timeout
\* ends in the generic handler as any other exception
get_gemini_response_no_timeout_clause(has_key, api) ==
    IF api.kind = "response" /\ api.candidates
    THEN IF strip(api.raw) = << Sentinel >>
         THEN Returned(<< "Gemini:", "No question found in this snippet." >>)
         ELSE Returned(<< "Gemini Answer:", "\n" >> \o strip(api.raw))
    ELSE Returned(<< "Gemini Error:", "Exception" >>)

\* the call comparing the untrimmed answer with the sentinel
get_gemini_response_untrimmed(has_key, api) ==
    IF api.kind = "response" /\ api.candidates
    THEN IF api.raw = << Sentinel >>
         THEN Returned(<< "Gemini:", "No question found in this snippet." >>)
         ELSE Returned(<< "Gemini Answer:", "\n" >> \o api.raw)
    ELSE Returned(<< "Gemini Error:", api.kind >>)

\* the call answering every failure with one and the same text
get_gemini_response_one_message(has_key, api) ==
    IF has_key /\ api.kind = "response" /\ api.candidates
    THEN IF strip(api.raw) = << Sentinel >>
         THEN Returned(<< "Gemini:", "No question found in this snippet." >>)
         ELSE Returned(<< "Gemini Answer:", "\n" >> \o strip(api.raw))
    ELSE Returned(<< "Gemini Error:", "Exception" >>)

\* lines 77-130
get_gemini_response(has_key, api) ==
    IF ~has_key
    THEN Returned(<< "Gemini Error:", "API key not configured." >>)
    ELSE CASE api.kind = "response" ->
                IF api.candidates
                THEN LET response_text == strip(api.raw)
                     IN  IF response_text = << Sentinel >>
                         THEN Returned(<< "Gemini:", "No question found in this snippet." >>)
                         ELSE Returned(<< "Gemini Answer:", "\n" >> \o response_text)
                ELSE Returned(<< "Gemini Error:", "No text content found in API response." >>)
           [] api.kind = "BlockedPromptException" ->
                Returned(<< "Gemini Error:", "Prompt blocked by safety filters." >>)
           [] api.kind = "TimeoutError" ->
                Returned(<< "Gemini Error:", "Request timed out." >>)
           [] api.kind = "CancelledError" -> Cancelled
           [] OTHER ->
                IF api.raw = << >>
                THEN Returned(<< "Gemini Error:", "Exception" >>)
                ELSE Raised("UnicodeEncodeError")

\* lines 135-161
get_chatgpt_response(api) == Returned(<< "ChatGPT:", "[Not implemented/configured]" >>)

\* lines 163-190
get_perplexity_response(api) == Returned(<< "Perplexity:", "[Not implemented/configured]" >>)

\* lines 194-198: the call AI_CLIENTS[model_name](scraped_text)
AI_CLIENTS(model_name, has_key, api) ==
    CASE model_name = "gemini" -> get_gemini_response(has_key, api)
      [] model_name = "chatgpt" -> get_chatgpt_response(api)
      [] OTHER -> get_perplexity_response(api)

----------------------------------------------------------------------------
(* core_loop.py: pure parts *)

Record(capture_id, model_name, response_text) ==
    [ capture_id |-> capture_id, model_name |-> model_name,
      response_text |-> response_text ]

\* the callback without its except clause
handle_ai_response_no_except(model_name, capture_id, queue, result) ==
    IF result.kind = "returned"
    THEN Append(queue, Record(capture_id, model_name, result.text))
    ELSE queue

\* the callback with a put in the try block and a second one after it
handle_ai_response_twice(model_name, capture_id, queue, result) ==
    Append(Append(queue, Record(capture_id, model_name, result.text)),
           Record(capture_id, model_name,
                  << model_name, "Task Error:" >> \o result.text))

\* lines 19-32: the done callback; task.result() returns, raises an
\* Exception, or raises CancelledError (a BaseException, not caught)
handle_ai_response(model_name, capture_id, queue, result) ==
    CASE result.kind = "returned" ->
            Append(queue, Record(capture_id, model_name, result.text))
      [] result.kind = "raised" ->
            Append(queue, Record(capture_id, model_name,
                                 << model_name, "Task Error:" >> \o result.text))
      [] OTHER -> queue

\* line 135: the model of the pipeline names a capture by the counter of
\* its id; capture_id_text is the id as the code writes it
mint_capture_id(counter) == counter

\* a callback that reads the id of the latest tick when it runs
latest_capture_id(capture_id, counter) == mint_capture_id(counter - 1)

\* lines 168-170: functools.partial keeps the capture id of the tick that
\* created the task, whatever the counter is when the callback runs
partial_capture_id(capture_id, counter) == capture_id

DecimalDigits == << "0", "1", "2", "3", "4", "5", "6", "7", "8", "9" >>

\* str(n) for n >= 0
RECURSIVE decimal(_)
decimal(n) ==
    IF n < 10 THEN << DecimalDigits[n + 1] >>
    ELSE decimal(n \div 10) \o << DecimalDigits[(n % 10) + 1] >>

\* the format specification 0<width>d
RECURSIVE zero_pad(_, _)
zero_pad(t, width) ==
    IF Len(t) >= width THEN t ELSE zero_pad(<< "0" >> \o t, width)

\* datetime.now().strftime("%Y%m%d%H%M%S") within one minute: 14 characters
strftime(second) ==
    << "2", "0", "2", "6", "1", "1", "0", "3", "1", "2", "0", "0" >>
        \o zero_pad(decimal(second), 2)

\* the id with the counter kept to three digits
capture_id_text_three_digits(timestamp, counter) ==
    timestamp \o << "_" >> \o zero_pad(decimal(counter % 1000), 3)

\* line 135: strftime(...) + f"_{capture_counter:03d}"
capture_id_text(timestamp, counter) ==
    timestamp \o << "_" >> \o zero_pad(decimal(counter), 3)

\* line 143
skips_ai_processing(scraped_text) ==
    scraped_text = << >> \/ Contains(scraped_text, OcrTag)

\* line 145
stored_text(scraped_text) ==
    IF scraped_text = << >> THEN << "Empty Capture" >> ELSE scraped_text

\* the loop creating a task for every name of the list
launched_models_unchecked(models) == models

\* the loop over models_to_use going from the last to the first
launched_models_reversed(models) ==
    [ i \in 1..Len(models) |-> models[Len(models) + 1 - i] ]

\* the loop over models_to_use stopping one short
launched_models_short(models) ==
    SubSeq(models, 1, Len(models) - 1)

\* lines 161-174: the providers a tick creates tasks for, in order
launched_models(models) ==
    SelectSeq(models, LAMBDA m : m \in ProviderSet)

\* the turn of the loop of line 161 in which the task of model_name is
\* created
launch_position(launched, model_name) ==
    CHOOSE i \in 1..Len(launched) : launched[i] = model_name

\* the sleep without the clamp at zero
compute_sleep_duration_unclamped(iv, elapsed) == iv - elapsed

\* the sleep of a loop that keeps to the schedule: the time the tick before
\* ran over is taken off the sleep of this one
compute_sleep_duration_catch_up(iv, elapsed) ==
    Max(0, iv - elapsed - Max(0, elapsed_time - iv))

\* line 110
compute_sleep_duration(iv, elapsed) == Max(0, iv - elapsed)

\* the warning tested on a negative sleep, after the clamp
warns_overrun_negative(sleep) == sleep < 0

\* lines 112-117
warns_overrun(sleep) == ~(sleep > 0)

----------------------------------------------------------------------------
(* main.py get_user_input, lines 113-254, and main, lines 258-273 *)

\* lines 182-229: each provider is offered only when its key is set; the
\* answers are appended in the fixed order gemini, chatgpt, perplexity
EnabledLists(keys) ==
    { SelectSeq(Providers, LAMBDA m : m \in chosen) :
        chosen \in (SUBSET keys) \ {{}} }

Min(a, b) == IF a <= b THEN a ELSE b

Abs(a) == IF a >= 0 THEN a ELSE 0 - a

\* no region selected yet
NoRegion == [ top |-> 0, left |-> 0, width |-> 0, height |-> 0 ]

\* the region with the width and the height as the clicks give them
get_screen_region_signed(clicks) ==
    [ top |-> clicks[1][2], left |-> clicks[1][1],
      width |-> Max(1, clicks[2][1] - clicks[1][1]),
      height |-> Max(1, clicks[2][2] - clicks[1][2]) ]

\* lines 78-92: the region of the two clicks (x1, y1), (x2, y2)
get_screen_region(clicks) ==
    LET x1 == clicks[1][1]
        y1 == clicks[1][2]
        x2 == clicks[2][1]
        y2 == clicks[2][2]
    IN  [ top |-> Min(y1, y2), left |-> Min(x1, x2),
          width |-> Max(1, Abs(x2 - x1)), height |-> Max(1, Abs(y2 - y1)) ]

\* core_loop.py line 101: run_capture_loop at the top of its loop, nothing
\* of a tick going on
NoTick == [ in_progress |-> {}, sleeping |-> FALSE ]

\* the clicks of the operator in the models of the pipeline
CornerClicks == << << 10, 10 >>, << 50, 50 >> >>

\* core_loop.py lines 15-17 and main.py line 263: nothing captured, nothing
\* queued
Started ==
    /\ capture_counter = 0
    /\ capture_scraped_text = << >>
    /\ tasks = << >>
    /\ results_queue = << >>
    /\ log_file = << >>
    /\ email_tasks = {}
    /\ consumer_active = FALSE
    /\ elapsed_time = 0
    /\ sleep_duration = 0
    /\ overrun_warning = FALSE
    /\ io_failures = 0
    /\ enqueued = << >>
    /\ capture_trace = << >>
    /\ sink_trace = << >>

\* the answers of the operator (lines 140-229)
Answers(lists, intervals, notifies, emails) ==
    /\ models_to_use \in lists
    /\ api_keys = { models_to_use[i] : i \in 1..Len(models_to_use) }
    /\ interval \in intervals
    /\ notify_enabled \in notifies
    /\ email_enabled \in emails
    /\ email_recipient = IF email_enabled THEN "user@example.com" ELSE None

\* The state main() starts the two tasks in (lines 260-273), for the given
\* answers of the operator
Configured(lists, intervals, notifies, emails) ==
    /\ Answers(lists, intervals, notifies, emails)
    /\ click_coords = CornerClicks
    /\ capture_region = get_screen_region(click_coords)
    /\ main_task = "gathering"
    /\ dispatcher = "running"
    /\ consumer = "running"
    /\ minted = << >>
    /\ capture_loop = NoTick
    /\ Started

\* lines 20-34: the listener thread reports a button press; after the second
\* one it stops
on_click(x, y) ==
    /\ main_task = "selecting"
    /\ Len(click_coords) < 2
    /\ click_coords' = Append(click_coords, << x, y >>)
    /\ UNCHANGED << api_keys, models_to_use, interval, notify_enabled,
                    email_enabled, email_recipient, capture_region, minted,
                    capture_loop,
                    capture_counter, capture_scraped_text, tasks,
                    results_queue, log_file, email_tasks, dispatcher, consumer,
                    consumer_active, main_task, elapsed_time, sleep_duration,
                    overrun_warning, io_failures, enqueued, capture_trace,
                    sink_trace >>

\* lines 69-94: the wait loop of get_screen_region ends with two clicks and
\* the region is returned
select_region ==
    /\ main_task = "selecting"
    /\ Len(click_coords) = 2
    /\ capture_region' = get_screen_region(click_coords)
    /\ main_task' = "selected"
    /\ UNCHANGED << api_keys, models_to_use, interval, notify_enabled,
                    email_enabled, email_recipient, click_coords, minted,
                    capture_loop,
                    capture_counter, capture_scraped_text, tasks,
                    results_queue, log_file, email_tasks, dispatcher, consumer,
                    consumer_active, elapsed_time, sleep_duration,
                    overrun_warning, io_failures, enqueued, capture_trace,
                    sink_trace >>

\* get_user_input going on to the region selection whatever was chosen
startup_outcome_unchecked(models) == "selecting"

\* lines 227-229: sys.exit(1) with no model chosen; SystemExit leaves
\* main() and run_until_complete (lines 301-307 catch Exception only)
startup_outcome(models) ==
    IF models = << >> THEN "exited" ELSE "selecting"

\* every provider offered, its key set or not
offered_models_all(keys) == ProviderSet

\* lines 180-222: `if GOOGLE_API_KEY:` and the like: the question for a
\* provider is asked only when its key is set
offered_models(keys) == keys \cap ProviderSet

\* lines 140-232: the operator answers; a model is offered only if its key
\* is configured (lines 180, 195, 210), the recipient is asked for and
\* validated only if email is enabled (lines 163-176)
get_user_input(intervals, notifies, emails) ==
    /\ main_task = "configuring"
    /\ \E chosen \in SUBSET offered_models(api_keys) :
          models_to_use' = SelectSeq(Providers, LAMBDA m : m \in chosen)
    /\ interval' \in intervals
    /\ notify_enabled' \in notifies
    /\ email_enabled' \in emails
    /\ email_recipient' = IF email_enabled' THEN "user@example.com" ELSE None
    /\ main_task' = startup_outcome(models_to_use')
    /\ UNCHANGED << api_keys, click_coords, capture_region, minted,
                    capture_loop,
                    capture_counter, capture_scraped_text, tasks,
                    results_queue, log_file, email_tasks, dispatcher, consumer,
                    consumer_active, elapsed_time, sleep_duration,
                    overrun_warning, io_failures, enqueued, capture_trace,
                    sink_trace >>

----------------------------------------------------------------------------
(* The event loop *)

\* the loop going on after the interrupt
LoopRunningThroughInterrupt ==
    main_task \in {"gathering", "grace", "interrupted"}

\* main.py line 301: run_until_complete(main()) has not returned or raised
LoopRunning == main_task \in {"gathering", "grace"}

\* Only the running task takes steps: handle_results does not suspend while
\* the queue has items (asyncio.Queue.get returns at once).
OthersMayRun ==
    LoopRunning /\ ~consumer_active /\ dispatcher # "capturing"

\* a file write or a sink call that the environment lets fail
MayFail == io_failures < MaxIoFailures

\* One capture as the environment decides it: what the OCR does, and the
\* time.time() difference around process_capture in whole seconds.
AnswerTick == << OcrText(<< "Q1" >>), 5 >>

OverrunTick == << OcrText(<< " ", "Q1", "\n", " ", "\n", "Q2", "\n" >>), 25 >>

BlankTick == << OcrText(<< " ", "\n", " " >>), 20 >>

TagInTextTick == << OcrText(<< "Q3", "OCR Error" >>), 5 >>

NoTesseractTick == << OcrRaises("FileNotFoundError"), 20 >>

CaptureFailsTick == << OcrRaises("Exception"), 25 >>

\* a tick of more than three intervals
LongOverrunTick == << OcrText(<< "Q1" >>), 65 >>

PlainCaptures == { AnswerTick, OverrunTick, BlankTick }

AllCaptures ==
    PlainCaptures \cup { TagInTextTick, NoTesseractTick, CaptureFailsTick }

\* One Gemini API call under asyncio.wait_for as the environment decides it
GeminiAnswer == ApiResponse(<< "42", " " >>)

GeminiNoQuestion == ApiResponse(<< " ", "NO_QUESTION_DETECTED", "\n" >>)

GeminiQuotesSentinel == ApiResponse(<< "see", "NO_QUESTION_DETECTED" >>)

PlainApis == { GeminiAnswer, ApiRaises("TimeoutError") }

AllApis ==
    { GeminiAnswer, GeminiNoQuestion, GeminiQuotesSentinel, ApiNoCandidates,
      ApiRaises("BlockedPromptException"), ApiRaises("TimeoutError"),
      ApiRaises("Exception"), ApiRaisesUnprintable }

\* the provider call made in place instead of in a task of its own: over
\* when process_capture goes on
AwaitedCall ==
    [ st |-> "handled",
      api |-> [ kind |-> "slept", candidates |-> FALSE, raw |-> << >> ],
      result |-> [ kind |-> "returned", text |-> << >> ],
      scraped_text |-> << >>,
      position |-> 0 ]

\* core_loop.py lines 165-167: a task created and not yet finished: no
\* outcome, no result; scraped_text is the argument of the call, position
\* the turn of the loop of line 161 that created it
PendingTask ==
    [ st |-> "pending",
      api |-> [ kind |-> "pending", candidates |-> FALSE, raw |-> << >> ],
      result |-> [ kind |-> "pending", text |-> << >> ],
      scraped_text |-> << >>,
      position |-> 0 ]

Keys(capture_id, models) ==
    { << capture_id, models[i] >> : i \in 1..Len(models) }

\* the capture block not written at all
log_scraped_text_skipped(file, capture_id, scraped_text, fails) == file

\* output_utils.py lines 15-27: the write is inside try/except
log_scraped_text(file, capture_id, scraped_text, fails) ==
    IF fails THEN file
    ELSE Append(file, [ kind |-> "capture", capture_id |-> capture_id,
                        text |-> scraped_text ])

\* output_utils.py lines 29-38: the write is inside try/except
log_response(file, capture_id, source, response_text, fails) ==
    IF fails THEN file
    ELSE Append(file, [ kind |-> "response", source |-> source,
                        text |-> response_text ])

\* the next call of process_capture made whatever the loop is waiting for
may_start_capture_unawaited(loop) == TRUE

\* lines 105 and 119: both are awaited, so line 105 is reached again only
\* when process_capture has returned and asyncio.sleep has returned
may_start_capture(loop) == loop.in_progress = {} /\ ~loop.sleeping

\* core_loop.py lines 135-141 and screen_utils.py lines 27-47: process_capture
\* has called capture_and_ocr, which is inside sct.grab or image_to_string.
\* These are plain calls in the coroutine, not awaited and not run in an
\* executor: the thread of the event loop is inside them.
capture_begin ==
    /\ OthersMayRun
    /\ dispatcher = "running"
    /\ capture_counter < MaxTicks
    /\ dispatcher' = "capturing"
    /\ capture_loop' =
          [ in_progress |->
                capture_loop.in_progress \cup { mint_capture_id(capture_counter) },
            sleeping |-> FALSE ]
    /\ UNCHANGED << config_vars, minted, capture_counter, capture_scraped_text,
                    tasks, results_queue, log_file, email_tasks, consumer,
                    consumer_active, main_task, elapsed_time, sleep_duration,
                    overrun_warning, io_failures, enqueued, capture_trace,
                    sink_trace >>

\* core_loop.py lines 101-119 with process_capture, lines 122-176: one
\* iteration of the loop, up to the await of asyncio.sleep.  capture_and_ocr
\* has no await in it, so nothing else runs during the capture.
\* a tick that launches without writing its sample to the table
store_sample_not_stored(table, capture_id, scraped_text) == table

\* a table that holds the sample of the latest tick only
store_sample_latest_only(table, capture_id, scraped_text) ==
    capture_id :> scraped_text

\* core_loop.py lines 146 and 153:
\* capture_scraped_text[capture_id] = scraped_text
store_sample(table, capture_id, scraped_text) ==
    [ c \in DOMAIN table \cup { capture_id } |->
        IF c = capture_id THEN scraped_text ELSE table[c] ]

run_capture_loop(captures, log_may_fail) ==
    /\ LoopRunning /\ ~consumer_active
    /\ dispatcher \in {"running", "capturing"}
    /\ capture_counter < MaxTicks
    /\ \E co \in captures, log_fails \in {FALSE, log_may_fail} :
        LET ocr == co[1]
            elapsed == co[2]
            capture_id == mint_capture_id(capture_counter)
            captured == capture_and_ocr(ocr)
            scraped_text == captured.text
            skip == skips_ai_processing(scraped_text)
            kept == IF skip THEN stored_text(scraped_text) ELSE scraped_text
            launched == IF skip THEN << >> ELSE launched_models(models_to_use)
            sleep == compute_sleep_duration(interval, elapsed)
        IN  /\ log_fails => MayFail
            /\ capture_counter' = capture_counter + 1
            /\ capture_trace' = Append(capture_trace,
                                       [ ocr |-> ocr, elapsed |-> elapsed ])
            /\ IF captured.kind = "raised"
               THEN /\ dispatcher' = "crashed"
                    /\ capture_loop' =
                          [ in_progress |-> capture_loop.in_progress \ { capture_id },
                            sleeping |-> FALSE ]
                    /\ UNCHANGED << capture_scraped_text, log_file, tasks,
                                    elapsed_time, sleep_duration,
                                    overrun_warning, io_failures >>
               ELSE /\ capture_scraped_text' =
                          store_sample(capture_scraped_text, capture_id, kept)
                    /\ log_file' = log_scraped_text(log_file, capture_id, kept, log_fails)
                    /\ io_failures' = io_failures + (IF log_fails THEN 1 ELSE 0)
                    /\ tasks' = tasks @@
                          [ k \in Keys(capture_id, launched) |->
                              [ PendingTask EXCEPT
                                  !.scraped_text = scraped_text,
                                  !.position = launch_position(launched, k[2]) ] ]
                    /\ elapsed_time' = elapsed
                    /\ sleep_duration' = sleep
                    /\ overrun_warning' = warns_overrun(sleep)
                    /\ dispatcher' = "running"
                    /\ capture_loop' =
                          [ in_progress |-> capture_loop.in_progress \ { capture_id },
                            sleeping |-> TRUE ]
    /\ UNCHANGED << config_vars, minted, results_queue, email_tasks, consumer,
                    consumer_active, main_task, enqueued, sink_trace >>

\* line 105 seen apart from what comes before it: the call of
\* process_capture is made
tick_begin ==
    /\ may_start_capture(capture_loop)
    /\ capture_begin

\* lines 105-119 from inside process_capture: it returns, the sleep is
\* computed and begun
capture_returns(captures, log_may_fail) ==
    /\ dispatcher = "capturing"
    /\ run_capture_loop(captures, log_may_fail)

\* line 119: asyncio.sleep(sleep_duration) returns
sleep_ends ==
    /\ OthersMayRun
    /\ dispatcher = "running"
    /\ capture_loop.sleeping
    /\ capture_loop' = [ capture_loop EXCEPT !.sleeping = FALSE ]
    /\ UNCHANGED << config_vars, minted, capture_counter, capture_scraped_text,
                    tasks, results_queue, log_file, email_tasks, dispatcher,
                    consumer, consumer_active, main_task, elapsed_time,
                    sleep_duration, overrun_warning, io_failures, enqueued,
                    capture_trace, sink_trace >>

\* asyncio.sleep(1.0) ends before asyncio.sleep(1.5) started in the same tick
\* (ai_clients.py lines 160 and 189)
SleepOrder(k) ==
    k[2] = "perplexity" =>
        LET c == << k[1], "chatgpt" >>
        IN  c \in DOMAIN tasks => tasks[c].st # "pending"

\* The coroutine of task k returns and its done callback (core_loop.py lines
\* 19-32, attached at line 169) runs.  The loop calls done callbacks in the
\* order the tasks ended and the coroutine's return touches no shared state,
\* so the two are one step.
task_done(k, gemini_apis) ==
    /\ OthersMayRun
    /\ k \in DOMAIN tasks
    /\ tasks[k].st = "pending"
    /\ SleepOrder(k)
    /\ \E api \in (IF k[2] = "gemini" THEN gemini_apis ELSE { SleepOutcome }) :
        LET result == AI_CLIENTS(k[2], k[2] \in api_keys, api)
            queue == handle_ai_response(k[2],
                            partial_capture_id(k[1], capture_counter),
                            results_queue, result)
        IN  /\ tasks' = [ tasks EXCEPT ![k] =
                            [ st |-> "handled", api |-> api, result |-> result,
                              scraped_text |-> tasks[k].scraped_text,
                              position |-> tasks[k].position ] ]
            /\ results_queue' = queue
            /\ enqueued' = enqueued \o SubSeq(queue, Len(results_queue) + 1, Len(queue))
    /\ UNCHANGED << config_vars, minted, capture_loop, capture_counter,
                    capture_scraped_text,
                    log_file, email_tasks, dispatcher, consumer,
                    consumer_active, main_task, elapsed_time, sleep_duration,
                    overrun_warning, io_failures, capture_trace, sink_trace >>

----------------------------------------------------------------------------
(* The result consumer and its sinks *)

\* output_utils.py lines 6-13: print() is not guarded
print_response(source, response_text, fails) ==
    IF fails THEN "raised" ELSE "returned"

\* notification_utils.py lines 6-26: notify() is inside try/except
send_notification(title, message, fails) == "returned"

\* the lookup that gives an empty text for a capture id not in the table
sample_for_email_no_default(capture_id) ==
    IF capture_id \in DOMAIN capture_scraped_text
    THEN capture_scraped_text[capture_id]
    ELSE << >>

\* core_loop.py line 62: the length of the preview
PreviewLen == 200

\* the preview cut as soon as the text reaches the bound
notification_message_cut_at_bound(response_text) ==
    IF Len(response_text) >= PreviewLen
    THEN SubSeq(response_text, 1, PreviewLen) \o << ".", ".", "." >>
    ELSE response_text

\* core_loop.py line 62:
\* response_text[:200] + "..." if len(response_text) > 200 else response_text
notification_message(response_text) ==
    IF Len(response_text) > PreviewLen
    THEN SubSeq(response_text, 1, PreviewLen) \o << ".", ".", "." >>
    ELSE response_text

\* core_loop.py line 67
sample_for_email(capture_id) ==
    IF capture_id \in DOMAIN capture_scraped_text
    THEN capture_scraped_text[capture_id]
    ELSE << "Scraped text not available." >>

\* the truth value Python gives a recipient in `email_enabled and
\* email_recipient`: None and the empty string are false
Truthy(recipient) == recipient \notin { None, "" }

\* the optional sinks with the email depending on the flag alone
optional_sinks_any_recipient(notify, email, recipient) ==
    (IF notify THEN << "notify" >> ELSE << >>)
      \o (IF email THEN << "email" >> ELSE << >>)

\* the optional sinks with the email scheduled before the notification
optional_sinks_email_first(notify, email, recipient) ==
    (IF email /\ Truthy(recipient) THEN << "email" >> ELSE << >>)
      \o (IF notify THEN << "notify" >> ELSE << >>)

\* core_loop.py lines 59 and 66: the optional sinks of one record
optional_sinks(notify, email, recipient) ==
    (IF notify THEN << "notify" >> ELSE << >>)
      \o (IF email /\ Truthy(recipient) THEN << "email" >> ELSE << >>)

\* the sink the environment lets fail for one record
SinkFailures(failing) ==
    {"none"} \cup (IF MayFail
                   THEN failing \ (IF notify_enabled THEN {} ELSE {"notify"})
                   ELSE {})

\* core_loop.py lines 52-71: the sinks invoked for one record, in order, and
\* whether an exception left the loop body
delivery(rec, fail) ==
    IF print_response(rec.model_name, rec.response_text, fail = "console") = "raised"
    THEN [ sinks |-> << "console" >>, raised |-> TRUE ]
    ELSE IF /\ notify_enabled
            /\ send_notification(rec.model_name, rec.response_text,
                                 fail = "notify") = "raised"
         THEN [ sinks |-> << "console", "log", "notify" >>, raised |-> TRUE ]
         ELSE [ sinks |-> << "console", "log" >>
                            \o optional_sinks(notify_enabled, email_enabled,
                                              email_recipient),
                raised |-> FALSE ]

\* the get that hands out the newest item
queue_get_newest(queue) ==
    [ item |-> queue[Len(queue)], rest |-> SubSeq(queue, 1, Len(queue) - 1) ]

\* the get that leaves the item in the queue
queue_get_kept(queue) == [ item |-> Head(queue), rest |-> queue ]

\* core_loop.py line 48: asyncio.Queue.get() on a queue that is not empty
queue_get(queue) == [ item |-> Head(queue), rest |-> Tail(queue) ]

\* the email sent inside the loop body: over when the body goes on
await_send_email(emails, rec) == emails

\* core_loop.py lines 67-71: asyncio.create_task(send_email(...))
create_email_task(emails, rec) ==
    emails \cup { [ capture_id |-> rec.capture_id,
                    model_name |-> rec.model_name,
                    scraped_text |-> sample_for_email(rec.capture_id) ] }

\* core_loop.py lines 46-74: one iteration of the consumer loop
handle_results(failing) ==
    /\ LoopRunning /\ dispatcher # "capturing"
    /\ consumer = "running"
    /\ results_queue # << >>
    /\ results_queue' = queue_get(results_queue).rest
    /\ \E fail \in SinkFailures(failing) :
        LET rec == queue_get(results_queue).item
            d == delivery(rec, fail)
        IN  /\ io_failures' = io_failures + (IF fail = "none" THEN 0 ELSE 1)
            /\ sink_trace' = Append(sink_trace,
                                [ capture_id |-> rec.capture_id,
                                  model_name |-> rec.model_name,
                                  response_text |-> rec.response_text,
                                  sinks |-> d.sinks,
                                  notified |->
                                    IF Contains(d.sinks, "notify")
                                    THEN << notification_message(rec.response_text) >>
                                    ELSE << >> ])
            /\ log_file' =
                  IF Contains(d.sinks, "log")
                  THEN log_response(log_file, rec.capture_id, rec.model_name,
                                    rec.response_text, fail = "log")
                  ELSE log_file
            /\ email_tasks' =
                  IF Contains(d.sinks, "email")
                  THEN create_email_task(email_tasks, rec)
                  ELSE email_tasks
            /\ consumer' = IF d.raised THEN "crashed" ELSE "running"
            /\ consumer_active' =
                  (~d.raised /\ queue_get(results_queue).rest # << >>)
    /\ UNCHANGED << config_vars, minted, capture_loop, capture_counter,
                    capture_scraped_text, tasks,
                    dispatcher, main_task, elapsed_time, sleep_duration,
                    overrun_warning, enqueued, capture_trace >>

\* email_utils.py lines 8-34: a send_email task ends, the mail sent or the
\* failure printed; nothing of it reaches the consumer
send_email(e) ==
    /\ OthersMayRun
    /\ e \in email_tasks
    /\ email_tasks' = email_tasks \ {e}
    /\ UNCHANGED << config_vars, minted, capture_loop, capture_counter,
                    capture_scraped_text, tasks,
                    results_queue, log_file, dispatcher, consumer,
                    consumer_active, main_task, elapsed_time, sleep_duration,
                    overrun_warning, io_failures, enqueued, capture_trace,
                    sink_trace >>

----------------------------------------------------------------------------
(* main.py main, lines 258-293 *)

\* lines 279-285: gather re-raises the exception of a task that ended with
\* one; the finally block cancels both tasks
main_finally ==
    /\ OthersMayRun
    /\ main_task = "gathering"
    /\ consumer = "crashed" \/ dispatcher = "crashed"
    /\ main_task' = "grace"
    /\ dispatcher' = IF dispatcher = "running" THEN "cancelled" ELSE dispatcher
    /\ consumer' = IF consumer = "running" THEN "cancelled" ELSE consumer
    /\ UNCHANGED << config_vars, minted, capture_loop, capture_counter,
                    capture_scraped_text, tasks,
                    results_queue, log_file, email_tasks, consumer_active,
                    elapsed_time, sleep_duration, overrun_warning,
                    io_failures, enqueued, capture_trace,
                    sink_trace >>

\* lines 287-288 and 301: after the grace sleep main returns and the loop stops
main_exit ==
    /\ main_task = "grace"
    /\ main_task' = "exited"
    /\ UNCHANGED << config_vars, minted, capture_loop, capture_counter,
                    capture_scraped_text, tasks,
                    results_queue, log_file, email_tasks, dispatcher, consumer,
                    consumer_active, elapsed_time, sleep_duration,
                    overrun_warning, io_failures, enqueued, capture_trace,
                    sink_trace >>

\* lines 260-279: get_user_input has returned; the queue is created, the
\* two tasks are created and main waits in gather
main_start ==
    /\ main_task = "selected"
    /\ main_task' = "gathering"
    /\ consumer' = "running"
    /\ dispatcher' = "running"
    /\ UNCHANGED << config_vars, minted, capture_loop, capture_counter,
                    capture_scraped_text,
                    tasks, results_queue, log_file, email_tasks,
                    consumer_active, elapsed_time, sleep_duration,
                    overrun_warning, io_failures, enqueued, capture_trace,
                    sink_trace >>

\* core_loop.py line 135 for the n-th of the ticks under comparison
mint(n) ==
    /\ n \in 1..Len(minted)
    /\ minted[n].capture_id = << >>
    /\ \A m \in 1..(n - 1) : minted[m].capture_id # << >>
    /\ minted' = [ minted EXCEPT ![n].capture_id =
                      capture_id_text(minted[n].timestamp, minted[n].counter) ]
    /\ UNCHANGED << config_vars, capture_loop, capture_counter,
                    capture_scraped_text,
                    tasks, results_queue, log_file, email_tasks, dispatcher,
                    consumer, consumer_active, main_task, elapsed_time,
                    sleep_duration, overrun_warning, io_failures, enqueued,
                    capture_trace, sink_trace >>

\* lines 295-303: Ctrl+C.  No signal handler is installed, so
\* KeyboardInterrupt is raised in the main thread, inside whatever the loop
\* is running; no coroutine catches it (they catch Exception), it leaves
\* run_until_complete, is printed at line 303 and the program ends.  The
\* main task is not cancelled, so lines 280-288 do not run on the loop.
operator_interrupt ==
    /\ LoopRunning
    /\ main_task' = "interrupted"
    /\ UNCHANGED << config_vars, minted, capture_loop, capture_counter,
                    capture_scraped_text,
                    tasks, results_queue, log_file, email_tasks, dispatcher,
                    consumer, consumer_active, elapsed_time, sleep_duration,
                    overrun_warning, io_failures, enqueued, capture_trace,
                    sink_trace >>

----------------------------------------------------------------------------

(* Specifications.  The program is one; the environment (what the OCR,   *)
(* the Gemini API, the console and the log file do, and what the operator *)
(* typed) is what a specification fixes.                                  *)

AllSinks == {"console", "log", "notify"}

\* no sink fails, no OCR failure: every list of providers, no email
Init == Configured(EnabledLists(ProviderSet), {20}, BOOLEAN, {FALSE})

Next ==
    \/ run_capture_loop(PlainCaptures, FALSE)
    \/ \E k \in DOMAIN tasks : task_done(k, PlainApis)
    \/ handle_results({})

Spec == Init /\ [][Next]_vars

\* The same program and environment; the event loop runs every callback and
\* every task that is ready (asyncio runs its ready queue to the end).
FairInit == Configured(EnabledLists(ProviderSet), {20}, {FALSE}, {FALSE})

FairSpec ==
    /\ FairInit /\ [][Next]_vars
    /\ WF_vars(\E k \in DOMAIN tasks : task_done(k, PlainApis))
    /\ WF_vars(handle_results({}))

\* every outcome of the Gemini call, Gemini the one provider enabled
GeminiInit == Configured({ << "gemini" >> }, {20}, {FALSE}, {FALSE})

GeminiNext ==
    \/ run_capture_loop({ AnswerTick, BlankTick }, FALSE)
    \/ \E k \in DOMAIN tasks : task_done(k, AllApis)
    \/ handle_results({})

GeminiSpec == GeminiInit /\ [][GeminiNext]_vars

\* every outcome of the capture, two intervals
CaptureInit ==
    Configured({ << "gemini" >>, << "chatgpt", "perplexity" >> }, {20, 25},
               {FALSE}, {FALSE})

CaptureNext ==
    \/ run_capture_loop(AllCaptures, FALSE)
    \/ \E k \in DOMAIN tasks : task_done(k, PlainApis)
    \/ handle_results({})

CaptureSpec == CaptureInit /\ [][CaptureNext]_vars

\* the console, the log file or the notifier may fail; email on or off; the
\* program may end
SinkInit ==
    Configured({ << "chatgpt" >>, << "gemini", "chatgpt" >> }, {20}, BOOLEAN,
               BOOLEAN)

SinkNext ==
    \/ run_capture_loop({ AnswerTick, BlankTick }, TRUE)
    \/ \E k \in DOMAIN tasks : task_done(k, PlainApis)
    \/ handle_results(AllSinks)
    \/ \E e \in email_tasks : send_email(e)
    \/ main_finally
    \/ main_exit

SinkSpec == SinkInit /\ [][SinkNext]_vars

\* the operator may interrupt the program at any moment
InterruptInit ==
    Configured({ << "chatgpt" >>, << "gemini", "chatgpt" >> }, {20}, {FALSE},
               {FALSE})

InterruptNext ==
    \/ run_capture_loop({ AnswerTick, BlankTick }, FALSE)
    \/ \E k \in DOMAIN tasks : task_done(k, PlainApis)
    \/ handle_results({})
    \/ operator_interrupt

InterruptSpec == InterruptInit /\ [][InterruptNext]_vars

\* the capture seen as two steps: the call of the OCR, and its return with
\* the rest of the tick
BlockingInit ==
    Configured({ << "gemini" >>, << "chatgpt", "perplexity" >> }, {20},
               {FALSE}, {FALSE})

BlockingNext ==
    \/ capture_begin
    \/ run_capture_loop({ AnswerTick, BlankTick }, FALSE)
    \/ \E k \in DOMAIN tasks : task_done(k, PlainApis)
    \/ handle_results({})

BlockingSpec == BlockingInit /\ [][BlockingNext]_vars

\* the region selection before the pipeline starts, the clicks anywhere on
\* a small grid
Coordinates == { -5, 10, 15, 50 }

RegionInit ==
    /\ Answers({ << "gemini" >> }, {20}, {FALSE}, {FALSE})
    /\ click_coords = << >>
    /\ capture_region = NoRegion
    /\ main_task = "selecting"
    /\ dispatcher = "not started"
    /\ consumer = "not started"
    /\ minted = << >>
    /\ capture_loop = NoTick
    /\ Started

RegionNext ==
    \/ \E x, y \in Coordinates : on_click(x, y)
    \/ select_region

RegionSpec == RegionInit /\ [][RegionNext]_vars

\* the capture ids of two ticks of one run: the counter has grown between
\* them, the clock reads anything
Counters == { 0, 1, 9, 10, 99, 100, 999, 1000, 1001 }

Seconds == { 7, 8 }

TickPairs ==
    { p \in { << [ timestamp |-> strftime(s1), counter |-> c1,
                   capture_id |-> << >> ],
                 [ timestamp |-> strftime(s2), counter |-> c2,
                   capture_id |-> << >> ] >> :
                 s1 \in Seconds, s2 \in Seconds,
                 c1 \in Counters, c2 \in Counters } :
        p[1].counter < p[2].counter }

IdInit ==
    /\ Answers({ << "gemini" >> }, {20}, {FALSE}, {FALSE})
    /\ click_coords = CornerClicks
    /\ capture_region = get_screen_region(click_coords)
    /\ main_task = "gathering"
    /\ dispatcher = "running"
    /\ consumer = "running"
    /\ minted \in TickPairs
    /\ capture_loop = NoTick
    /\ Started

IdNext == \E n \in 1..Len(minted) : mint(n)

IdSpec == IdInit /\ [][IdNext]_vars

\* the program from its first line: the keys of .env are any of two, the
\* operator chooses among the models offered, clicks twice, and the
\* pipeline runs
StartupKeys == { "gemini", "chatgpt" }

StartupInit ==
    /\ api_keys \in SUBSET StartupKeys
    /\ models_to_use = << >>
    /\ interval = 0
    /\ notify_enabled = FALSE
    /\ email_enabled = FALSE
    /\ email_recipient = None
    /\ click_coords = << >>
    /\ capture_region = NoRegion
    /\ main_task = "configuring"
    /\ dispatcher = "not started"
    /\ consumer = "not started"
    /\ minted = << >>
    /\ capture_loop = NoTick
    /\ Started

StartupNext ==
    \/ get_user_input({20}, {FALSE}, {FALSE})
    \/ \E c \in {10, 50} : on_click(c, c)
    \/ select_region
    \/ main_start
    \/ run_capture_loop({ AnswerTick }, FALSE)
    \/ \E k \in DOMAIN tasks : task_done(k, { GeminiAnswer })
    \/ handle_results({})

StartupSpec == StartupInit /\ [][StartupNext]_vars

\* the same steps; the event loop runs what is ready, and whether the
\* screen grab and the tesseract process (screen_utils.py lines 28-47) ever
\* return is up to the environment: no fairness for the end of the capture
HangSpec ==
    /\ BlockingInit /\ [][BlockingNext]_vars
    /\ WF_vars(capture_begin)
    /\ WF_vars(\E k \in DOMAIN tasks : task_done(k, PlainApis))
    /\ WF_vars(handle_results({}))

\* the Gemini call may be cancelled under the program: the transport of
\* the API library gives up the call and asyncio.CancelledError, which none
\* of the except clauses of ai_clients.py lines 119-130 catches, ends the task
CancelApis ==
    { GeminiAnswer, ApiRaises("TimeoutError"), ApiRaises("CancelledError") }

CancelInit ==
    Configured({ << "gemini" >>, << "gemini", "chatgpt" >> }, {20}, {FALSE},
               {FALSE})

CancelNext ==
    \/ run_capture_loop({ AnswerTick, BlankTick }, FALSE)
    \/ \E k \in DOMAIN tasks : task_done(k, CancelApis)
    \/ handle_results({})

CancelSpec == CancelInit /\ [][CancelNext]_vars

\* get_gemini_response called with and without GOOGLE_API_KEY, for every
\* outcome of the API call (through get_user_input the call is made only
\* with the key set: main.py line 180 reads the same config value)
KeyInit ==
    /\ models_to_use = << "gemini" >>
    /\ api_keys \in SUBSET { "gemini" }
    /\ interval = 20
    /\ notify_enabled = FALSE
    /\ email_enabled = FALSE
    /\ email_recipient = None
    /\ click_coords = CornerClicks
    /\ capture_region = get_screen_region(click_coords)
    /\ main_task = "gathering"
    /\ dispatcher = "running"
    /\ consumer = "running"
    /\ minted = << >>
    /\ capture_loop = NoTick
    /\ Started

KeySpec == KeyInit /\ [][GeminiNext]_vars

\* every setting of the two flags as get_user_input returns them; the log
\* file and the notifier may fail (both calls are guarded), the console
\* does not
FlagsInit ==
    Configured({ << "chatgpt" >>, << "gemini", "chatgpt" >> }, {20}, BOOLEAN,
               BOOLEAN)

FlagsNext ==
    \/ run_capture_loop({ AnswerTick, BlankTick }, FALSE)
    \/ \E k \in DOMAIN tasks : task_done(k, PlainApis)
    \/ handle_results({ "log", "notify" })
    \/ \E e \in email_tasks : send_email(e)

FlagsSpec == FlagsInit /\ [][FlagsNext]_vars

\* handle_results called with every pair of email flag and recipient, the
\* recipient absent, empty or an address (get_user_input itself returns
\* an address with the flag on and None with the flag off)
Recipients == { None, "", "user@example.com" }

RecipientInit ==
    /\ models_to_use = << "chatgpt" >>
    /\ api_keys = { "chatgpt" }
    /\ interval = 20
    /\ notify_enabled \in BOOLEAN
    /\ email_enabled \in BOOLEAN
    /\ email_recipient \in Recipients
    /\ click_coords = CornerClicks
    /\ capture_region = get_screen_region(click_coords)
    /\ main_task = "gathering"
    /\ dispatcher = "running"
    /\ consumer = "running"
    /\ minted = << >>
    /\ capture_loop = NoTick
    /\ Started

RecipientSpec == RecipientInit /\ [][FlagsNext]_vars

\* handle_results given a queue that holds a record whose capture id is
\* not in capture_scraped_text (process_capture itself writes the entry
\* before it creates the tasks); email is on
OrphanId == MaxTicks + 5

OrphanRecord ==
    Record(OrphanId, "chatgpt", << "ChatGPT:", "[Not implemented/configured]" >>)

OrphanInit ==
    /\ Answers({ << "chatgpt" >> }, {20}, BOOLEAN, {TRUE})
    /\ click_coords = CornerClicks
    /\ capture_region = get_screen_region(click_coords)
    /\ main_task = "gathering"
    /\ dispatcher = "running"
    /\ consumer = "running"
    /\ minted = << >>
    /\ capture_loop = NoTick
    /\ capture_counter = 0
    /\ capture_scraped_text = << >>
    /\ tasks = << >>
    /\ results_queue = << OrphanRecord >>
    /\ log_file = << >>
    /\ email_tasks = {}
    /\ consumer_active = FALSE
    /\ elapsed_time = 0
    /\ sleep_duration = 0
    /\ overrun_warning = FALSE
    /\ io_failures = 0
    /\ enqueued = << OrphanRecord >>
    /\ capture_trace = << >>
    /\ sink_trace = << >>

OrphanSpec == OrphanInit /\ [][FlagsNext]_vars

\* handle_results given records with texts of every length around the
\* bound of the preview; here a text is the sequence of its characters, the
\* i-th character the last digit of i
Chars(n) == [ i \in 1..n |-> DecimalDigits[(i % 10) + 1] ]

ResponseLengths == { 0, 1, 199, 200, 201, 250 }

NotifyInit ==
    /\ Answers({ << "chatgpt" >> }, {20}, BOOLEAN, {FALSE})
    /\ click_coords = CornerClicks
    /\ capture_region = get_screen_region(click_coords)
    /\ main_task = "gathering"
    /\ dispatcher = "running"
    /\ consumer = "running"
    /\ minted = << >>
    /\ capture_loop = NoTick
    /\ capture_counter = 0
    /\ capture_scraped_text = << >>
    /\ tasks = << >>
    /\ \E m, n \in ResponseLengths :
          results_queue = << Record(0, "chatgpt", Chars(m)),
                             Record(1, "chatgpt", Chars(n)) >>
    /\ log_file = << >>
    /\ email_tasks = {}
    /\ consumer_active = FALSE
    /\ elapsed_time = 0
    /\ sleep_duration = 0
    /\ overrun_warning = FALSE
    /\ io_failures = 0
    /\ enqueued = results_queue
    /\ capture_trace = << >>
    /\ sink_trace = << >>

NotifyNext == handle_results({ "notify" })

NotifySpec == NotifyInit /\ [][NotifyNext]_vars

\* ticks shorter than the interval, a little longer and several intervals
\* long, in any succession
OverrunInit ==
    Configured({ << "gemini" >>, << "chatgpt" >> }, {20, 25}, {FALSE}, {FALSE})

OverrunNext ==
    \/ run_capture_loop({ AnswerTick, OverrunTick, LongOverrunTick }, FALSE)
    \/ \E k \in DOMAIN tasks : task_done(k, PlainApis)
    \/ handle_results({})

OverrunSpec == OverrunInit /\ [][OverrunNext]_vars

\* the loop of run_capture_loop step by step: the call of process_capture,
\* its return, the end of the sleep; ticks of 5, 25 and 65 seconds
TickInit ==
    Configured({ << "gemini" >>, << "chatgpt", "perplexity" >> }, {20},
               {FALSE}, {FALSE})

TickNext ==
    \/ tick_begin
    \/ capture_returns({ AnswerTick, OverrunTick, LongOverrunTick }, FALSE)
    \/ sleep_ends
    \/ \E k \in DOMAIN tasks : task_done(k, PlainApis)
    \/ handle_results({})

TickSpec == TickInit /\ [][TickNext]_vars

\* process_capture given a list with a name that AI_CLIENTS does not have
\* (get_user_input itself appends the three known names only)
UnknownName == "claude"

UnknownInit ==
    /\ models_to_use \in { << "gemini", UnknownName >>,
                           << UnknownName, "chatgpt", "perplexity" >>,
                           << UnknownName >> }
    /\ api_keys = ProviderSet
    /\ interval = 20
    /\ notify_enabled = FALSE
    /\ email_enabled = FALSE
    /\ email_recipient = None
    /\ click_coords = CornerClicks
    /\ capture_region = get_screen_region(click_coords)
    /\ main_task = "gathering"
    /\ dispatcher = "running"
    /\ consumer = "running"
    /\ minted = << >>
    /\ capture_loop = NoTick
    /\ Started

UnknownSpec == UnknownInit /\ [][InterruptNext]_vars

----------------------------------------------------------------------------
(* Properties *)

CaptureIds == 0..(MaxTicks - 1)

\* the positions in the history of the queue of the records of one invocation
RecordsOf(capture_id, model_name) ==
    { i \in 1..Len(enqueued) : /\ enqueued[i].capture_id = capture_id
                               /\ enqueued[i].model_name = model_name }

RecordsOfCapture(capture_id) ==
    { i \in 1..Len(enqueued) : enqueued[i].capture_id = capture_id }

\* the sample of tick c was taken, is not empty and is not flagged as a
\* capture error
GoodSample(c) ==
    /\ c \in DOMAIN capture_scraped_text
    /\ capture_scraped_text[c] # << "Empty Capture" >>
    /\ ~Contains(capture_scraped_text[c], OcrTag)

IsErrorText(t) ==
    \/ Len(t) >= 1 /\ t[1] = "Gemini Error:"
    \/ Len(t) >= 2 /\ t[2] = "Task Error:"

\* C1: for every tick whose sample is non-empty and not a capture error, the
\* records put on the results queue for its capture id never exceed the
\* number of enabled providers, and eventually there are exactly that many
\* (and one for each provider): nothing dropped, nothing enqueued twice.
C1_OneRecordPerProvider ==
    /\ [](\A c \in CaptureIds :
            Cardinality(RecordsOfCapture(c)) <= Len(models_to_use))
    /\ \A c \in CaptureIds :
          GoodSample(c) ~>
              /\ Cardinality(RecordsOfCapture(c)) = Len(models_to_use)
              /\ \A i \in 1..Len(models_to_use) :
                    Cardinality(RecordsOf(c, models_to_use[i])) = 1

\* a tick with a good sample and three providers has its three records, and
\* another tick was skipped and has none
C1_Witness ==
    \E c, d \in CaptureIds :
        /\ GoodSample(c)
        /\ Len(models_to_use) = 3
        /\ Cardinality(RecordsOfCapture(c)) = 3
        /\ d \in DOMAIN capture_scraped_text
        /\ ~GoodSample(d)
        /\ RecordsOfCapture(d) = {}

\* C2: in every reachable state each provider invocation (capture id,
\* provider) has at most one record; it has one exactly when its done
\* callback has run, and the record carries the one outcome of the task: the
\* returned text if it returned, the task error text if it raised.
C2_AtMostOneRecord ==
    /\ \A i \in 1..Len(enqueued) :
          << enqueued[i].capture_id, enqueued[i].model_name >> \in DOMAIN tasks
    /\ \A k \in DOMAIN tasks :
          /\ Cardinality(RecordsOf(k[1], k[2])) =
                (IF tasks[k].st = "handled" THEN 1 ELSE 0)
          /\ \A i \in RecordsOf(k[1], k[2]) :
                /\ tasks[k].result.kind \in {"returned", "raised"}
                /\ (tasks[k].result.kind = "returned") =
                      (enqueued[i].response_text = tasks[k].result.text)
                /\ (tasks[k].result.kind = "raised") =
                      (Len(enqueued[i].response_text) >= 2
                       /\ enqueued[i].response_text[2] = "Task Error:")

\* two invocations of one tick have completed, one with an answer and one
\* with an error text, and each has its single record
C2_Witness ==
    \E k, l \in DOMAIN tasks :
        /\ k[1] = l[1] /\ k # l
        /\ tasks[k].st = "handled" /\ tasks[l].st = "handled"
        /\ Cardinality(RecordsOf(k[1], k[2])) = 1
        /\ Cardinality(RecordsOf(l[1], l[2])) = 1
        /\ \E i \in RecordsOf(k[1], k[2]) : IsErrorText(enqueued[i].response_text)
        /\ \E i \in RecordsOf(l[1], l[2]) : ~IsErrorText(enqueued[i].response_text)

\* the tasks whose provider call ended in the given way
HandledWith(kinds) ==
    { k \in DOMAIN tasks : tasks[k].st = "handled" /\ tasks[k].api.kind \in kinds }

NoQuestionMessage == << "Gemini:", "No question found in this snippet." >>

\* the raw answers that are the sentinel once trimmed
IsSentinelAnswer(api) ==
    /\ api.kind = "response" /\ api.candidates
    /\ \E i \in 1..Len(api.raw) :
          /\ api.raw[i] = Sentinel
          /\ \A j \in (1..Len(api.raw)) \ {i} : api.raw[j] \in Whitespace

FormattedAsAnswer(t) == Len(t) >= 1 /\ t[1] = "Gemini Answer:"

\* C4: when the raw answer of a provider is, once trimmed, the sentinel
\* NO_QUESTION_DETECTED, the record enqueued and the record delivered to the
\* sinks are the no-question message, never a text formatted as an answer
\* and never one containing the sentinel.
C4_SentinelNotAnAnswer ==
    /\ \A i \in 1..Len(enqueued) :
          LET k == << enqueued[i].capture_id, enqueued[i].model_name >>
          IN  IsSentinelAnswer(tasks[k].api) =>
                  /\ enqueued[i].response_text = NoQuestionMessage
                  /\ ~FormattedAsAnswer(enqueued[i].response_text)
                  /\ ~Contains(enqueued[i].response_text, Sentinel)
    /\ \A i \in 1..Len(sink_trace) :
          LET k == << sink_trace[i].capture_id, sink_trace[i].model_name >>
          IN  IsSentinelAnswer(tasks[k].api) =>
                  /\ sink_trace[i].response_text = NoQuestionMessage
                  /\ Contains(sink_trace[i].sinks, "log")
                  /\ \E j \in 1..Len(log_file) :
                        /\ log_file[j].kind = "response"
                        /\ log_file[j].text = NoQuestionMessage

\* a padded sentinel answer was delivered as the no-question message, and an
\* answer that only quotes the sentinel was delivered as an answer
C4_Witness ==
    \E i, j \in 1..Len(sink_trace) :
        /\ tasks[<< sink_trace[i].capture_id, "gemini" >>].api = GeminiNoQuestion
        /\ sink_trace[i].model_name = "gemini"
        /\ sink_trace[i].response_text = NoQuestionMessage
        /\ tasks[<< sink_trace[j].capture_id, "gemini" >>].api = GeminiQuotesSentinel
        /\ sink_trace[j].model_name = "gemini"
        /\ FormattedAsAnswer(sink_trace[j].response_text)

FailureKinds == {"BlockedPromptException", "TimeoutError", "Exception"}

\* the step in which the call of task k fails and its done callback runs
FailureHandled(k) ==
    /\ tasks[k].st = "pending"
    /\ tasks'[k].st = "handled"
    /\ tasks'[k].api.kind \in FailureKinds

\* C6: a provider call that raises or times out never reaches
\* run_capture_loop: the step that handles the failure leaves the dispatcher
\* as it was and puts one error record on the results queue; afterwards the
\* dispatcher is still running, can take its next tick, and the invocation
\* has exactly that one error record.
C6_ProviderFailureContained ==
    /\ [][\A k \in DOMAIN tasks :
            FailureHandled(k) =>
                /\ dispatcher' = dispatcher
                /\ capture_counter' = capture_counter
                /\ Len(results_queue') = Len(results_queue) + 1
                /\ LET rec == results_queue'[Len(results_queue')]
                   IN  /\ rec.capture_id = k[1] /\ rec.model_name = k[2]
                       /\ IsErrorText(rec.response_text)]_vars
    /\ [](HandledWith(FailureKinds) # {} =>
            /\ dispatcher = "running"
            /\ (capture_counter < MaxTicks /\ ~consumer_active)
                  => ENABLED run_capture_loop({ AnswerTick }, FALSE)
            /\ \A k \in HandledWith(FailureKinds) :
                  /\ Cardinality(RecordsOf(k[1], k[2])) = 1
                  /\ \A i \in RecordsOf(k[1], k[2]) :
                        IsErrorText(enqueued[i].response_text))

\* the Gemini call of the first tick raised an exception that left the
\* coroutine, its error record was logged, and after that the second tick
\* captured and launched its tasks
C6_Witness ==
    /\ << 0, "gemini" >> \in DOMAIN tasks
    /\ tasks[<< 0, "gemini" >>].result.kind = "raised"
    /\ << 1, "gemini" >> \in DOMAIN tasks
    /\ \E i, j \in 1..Len(log_file) :
          /\ i < j
          /\ log_file[i].kind = "response"
          /\ log_file[i].text = << "gemini", "Task Error:", "UnicodeEncodeError" >>
          /\ log_file[j].kind = "capture"
          /\ log_file[j].capture_id = 1

\* the sinks handle_results invokes for a record when nothing fails
ConfiguredSinks ==
    << "console", "log" >>
        \o optional_sinks(notify_enabled, email_enabled, email_recipient)

\* C5: when one sink fails while handle_results delivers a record, the
\* other sinks still run for that record and the consumer goes on with the
\* following records; a sink failure never ends the consumer task.
C5_SinkFailureIsolated ==
    /\ consumer # "crashed"
    /\ \A i \in 1..Len(sink_trace) : sink_trace[i].sinks = ConfiguredSinks

\* the console failed on a record: the log did not get it, the consumer
\* ended, the program exited with a later record still in the queue
C5_ConsumerEnded ==
    /\ consumer = "crashed"
    /\ main_task = "exited"
    /\ results_queue # << >>
    /\ sink_trace[Len(sink_trace)].sinks = << "console" >>
    /\ \A j \in 1..Len(log_file) : log_file[j].kind # "response"

\* the provider tasks created by tick c
LaunchedBy(c) == { k \in DOMAIN tasks : k[1] = c }

\* the dispatcher is between ticks and the model lets it take one more
MayTick == capture_counter < MaxTicks /\ ~consumer_active

SampleOf(c) == capture_and_ocr(capture_trace[c + 1].ocr).text

IsErrorMarker(t) == Len(t) >= 1 /\ t[1] = OcrTag

\* C8: a tick launches no provider invocation if and only if its sample is
\* empty or begins with the error tag; the sample is stored under the
\* capture id and logged in that case too; every other sample, one with the
\* tag later in its body included, is dispatched to every provider.
C8_SkipIffEmptyOrMarker ==
    \A c \in DOMAIN capture_scraped_text :
        /\ (LaunchedBy(c) = {}) <=>
              (SampleOf(c) = << >> \/ IsErrorMarker(SampleOf(c)))
        /\ LaunchedBy(c) # {} => LaunchedBy(c) = Keys(c, models_to_use)
        /\ \E j \in 1..Len(log_file) :
              /\ log_file[j].kind = "capture"
              /\ log_file[j].capture_id = c
              /\ log_file[j].text = capture_scraped_text[c]

\* a sample with the tag after its first word was stored and logged, and no
\* provider was called for it
C8_TagInBodySkipped ==
    \E c \in DOMAIN capture_scraped_text :
        /\ SampleOf(c) = << "Q3", OcrTag >>
        /\ capture_scraped_text[c] = << "Q3", OcrTag >>
        /\ LaunchedBy(c) = {}

\* C9: after each tick the dispatcher sleeps max(0, interval - elapsed),
\* elapsed being the duration of that tick: what is left of the interval
\* when the tick was shorter, nothing otherwise; with interval 20 a tick of
\* 5 gives 15 and a tick of 25 gives 0; never negative, never above interval.
C9_SleepIsRemainder ==
    capture_counter > 0 =>
        /\ elapsed_time = capture_trace[Len(capture_trace)].elapsed
        /\ 0 <= sleep_duration /\ sleep_duration <= interval
        /\ elapsed_time < interval => sleep_duration + elapsed_time = interval
        /\ elapsed_time >= interval => sleep_duration = 0
        /\ (interval = 20 /\ elapsed_time = 5) => sleep_duration = 15
        /\ (interval = 20 /\ elapsed_time = 25) => sleep_duration = 0

\* interval 20: a tick of 25 seconds, then a tick of 5 followed by a sleep
\* of 15
C9_Witness ==
    /\ interval = 20
    /\ Len(capture_trace) = 2
    /\ capture_trace[1].elapsed = 25
    /\ elapsed_time = 5
    /\ sleep_duration = 15

\* C10: the overrun warning is emitted after a tick exactly when the
\* elapsed time of that tick is at least the interval, and then the sleep
\* before the next tick is zero; below the interval there is no warning.
C10_WarningIffOverrun ==
    capture_counter > 0 =>
        /\ overrun_warning <=> (elapsed_time >= interval)
        /\ overrun_warning => sleep_duration = 0
        /\ elapsed_time < interval => (~overrun_warning /\ sleep_duration > 0)

\* a tick shorter than the interval, then a tick exactly as long as the
\* interval with the warning and no sleep
C10_Witness ==
    /\ Len(capture_trace) = 2
    /\ capture_trace[1].elapsed < interval
    /\ elapsed_time = interval
    /\ overrun_warning
    /\ sleep_duration = 0

\* the record handle_results took in its i-th iteration
Delivered(i) ==
    Record(sink_trace[i].capture_id, sink_trace[i].model_name,
           sink_trace[i].response_text)

\* C11: handle_results delivers the records in the order in which the
\* completion callbacks put them on the results queue: the i-th record
\* delivered is the i-th record put, whatever the order of the completions
\* across providers and across capture ids.
C11_ArrivalOrder ==
    /\ Len(sink_trace) <= Len(enqueued)
    /\ \A i \in 1..Len(sink_trace) : Delivered(i) = enqueued[i]

\* a record of the second capture was delivered before a record of the
\* first, and within one capture ChatGPT's before Gemini's, though Gemini is
\* first in models_to_use
C11_Witness ==
    /\ \E i, j \in 1..Len(sink_trace) :
          /\ i < j
          /\ sink_trace[i].capture_id = 1
          /\ sink_trace[j].capture_id = 0
    /\ \E i, j \in 1..Len(sink_trace) :
          /\ i < j
          /\ sink_trace[i].capture_id = sink_trace[j].capture_id
          /\ sink_trace[i].model_name = "chatgpt"
          /\ sink_trace[j].model_name = "gemini"

\* the most records one run of the model puts on the queue
MaxRecords == MaxTicks * Len(Providers)

ResponseEntries == { j \in 1..Len(log_file) : log_file[j].kind = "response" }

\* C12: while the pipeline is not cancelled, every record put on the results
\* queue is eventually taken by handle_results, and none is taken twice:
\* the records taken and the records waiting are together the records put,
\* no invocation is delivered two times, the log has one response entry per
\* record taken, and the n-th record put is eventually the n-th taken.
C12_TakenExactlyOnce ==
    /\ [](/\ Len(sink_trace) + Len(results_queue) = Len(enqueued)
          /\ \A i \in 1..Len(results_queue) :
                results_queue[i] = enqueued[Len(sink_trace) + i]
          /\ \A i, j \in 1..Len(sink_trace) :
                (/\ sink_trace[i].capture_id = sink_trace[j].capture_id
                 /\ sink_trace[i].model_name = sink_trace[j].model_name) => i = j
          /\ Cardinality(ResponseEntries) = Len(sink_trace))
    /\ \A n \in 1..MaxRecords :
          (Len(enqueued) >= n) ~> (Len(sink_trace) >= n)

\* six records were put, by three providers in two ticks, and the six were
\* taken and logged
C12_Witness ==
    /\ Len(enqueued) = 6
    /\ Len(sink_trace) = 6
    /\ results_queue = << >>
    /\ Cardinality(ResponseEntries) = 6

\* C13: on the operator's interrupt every record that is on the results
\* queue at that moment is still delivered before the process ends: once
\* interrupted, the program has no record left in the queue.
C13_QueueDrainedAtShutdown ==
    main_task = "interrupted" =>
        /\ results_queue = << >>
        /\ Len(sink_trace) = Len(enqueued)

\* the interrupt came between the callback that put a record and the next
\* step of the consumer: the consumer never failed, and the record is left
\* in the queue, printed and logged nowhere
C13_RecordDiscarded ==
    /\ main_task = "interrupted"
    /\ consumer = "running"
    /\ results_queue # << >>
    /\ Len(sink_trace) < Len(enqueued)
    /\ ResponseEntries = {}

\* C14: after the operator's interrupt the dispatcher starts no tick: no
\* capture begins, no capture id is minted, no provider task is created.
C14_NoTickAfterInterrupt ==
    [][main_task = "interrupted" =>
          /\ capture_counter' = capture_counter
          /\ capture_trace' = capture_trace
          /\ capture_scraped_text' = capture_scraped_text
          /\ DOMAIN tasks' = DOMAIN tasks
          /\ dispatcher' # "capturing"]_vars

\* the interrupt came after the first tick, while the dispatcher slept
\* before a second tick that the model would have let it take
C14_Witness ==
    /\ main_task = "interrupted"
    /\ dispatcher = "running"
    /\ capture_counter = 1
    /\ capture_counter < MaxTicks
    /\ ~consumer_active

PendingTasks == { k \in DOMAIN tasks : tasks[k].st = "pending" }

\* C15: process_capture returns while the provider invocations of its tick
\* are in flight: the step of a tick leaves every task it created pending,
\* completes no earlier task and puts nothing on the queue; and the
\* dispatcher can start the next tick whatever tasks are pending, so
\* invocations of several capture ids are pending at once.
C15_TickDoesNotAwaitProviders ==
    /\ [][capture_counter' = capture_counter + 1 =>
            /\ \A k \in (DOMAIN tasks') \ (DOMAIN tasks) :
                  /\ k[1] = capture_counter
                  /\ tasks'[k].st = "pending"
            /\ \A k \in DOMAIN tasks : tasks'[k] = tasks[k]
            /\ results_queue' = results_queue]_vars
    /\ [](MayTick => ENABLED run_capture_loop({ AnswerTick }, FALSE))

\* the second tick is over and invocations of both capture ids are pending
C15_Witness ==
    /\ capture_counter = 2
    /\ \E k, l \in PendingTasks : k[1] = 0 /\ l[1] = 1

\* the pending email of the record handle_results took in its i-th iteration
EmailOf(i, emails) ==
    { e \in emails : /\ e.capture_id = sink_trace[i].capture_id
                     /\ e.model_name = sink_trace[i].model_name }

\* C16: an email that is slow or never done does not delay the consumer:
\* the step that delivers a record with the email sink leaves its email
\* pending and completes none, and handle_results can take the next record
\* whatever emails are pending.
C16_EmailInBackground ==
    /\ [][(/\ Len(sink_trace') = Len(sink_trace) + 1
           /\ Contains(sink_trace'[Len(sink_trace')].sinks, "email")) =>
            /\ email_tasks \subseteq email_tasks'
            /\ \E e \in email_tasks' :
                  /\ e.capture_id = sink_trace'[Len(sink_trace')].capture_id
                  /\ e.model_name = sink_trace'[Len(sink_trace')].model_name]_vars
    /\ []((/\ LoopRunning /\ dispatcher # "capturing"
           /\ consumer = "running" /\ results_queue # << >>) =>
            ENABLED handle_results({}))

\* two records were delivered to console and log, and the emails of both are
\* still pending
C16_Witness ==
    /\ Len(sink_trace) = 2
    /\ Cardinality(ResponseEntries) = 2
    /\ \A i \in 1..2 :
          /\ Contains(sink_trace[i].sinks, "email")
          /\ EmailOf(i, email_tasks) # {}

\* a provider task whose call is over and whose callback is due
CompletionDue == \E k \in PendingTasks : SleepOrder(k)

\* C17: while the capture/OCR call of a tick is in progress the other tasks
\* of the event loop can take steps: a provider task that is due can end
\* and have its callback run, and the consumer can take a record that is
\* waiting.
C17_CaptureDoesNotStall ==
    dispatcher = "capturing" =>
        /\ CompletionDue =>
              ENABLED (\E k \in DOMAIN tasks : task_done(k, PlainApis))
        /\ (consumer = "running" /\ results_queue # << >>) =>
              ENABLED handle_results({})

\* the second capture is in progress; a record of the first tick waits in
\* the queue and a provider call of the first tick is due, and neither the
\* consumer nor the callback can run
C17_LoopStalled ==
    /\ dispatcher = "capturing"
    /\ capture_counter = 1
    /\ consumer = "running" /\ results_queue # << >>
    /\ CompletionDue
    /\ ~ENABLED handle_results({})
    /\ ~ENABLED (\E k \in DOMAIN tasks : task_done(k, PlainApis))

\* the two clicks the other way round
Swapped(clicks) == << clicks[2], clicks[1] >>

\* r is the normalised rectangle of the corners (x1, y1) and (x2, y2)
IsNormalised(r, x1, y1, x2, y2) ==
    /\ r.left \in { x1, x2 } /\ r.left <= x1 /\ r.left <= x2
    /\ r.top \in { y1, y2 } /\ r.top <= y1 /\ r.top <= y2
    /\ r.width >= 1 /\ r.height >= 1
    /\ (x1 # x2) => (r.left + r.width \in { x1, x2 } /\ r.width > 0)
    /\ (x1 = x2) => r.width = 1
    /\ (y1 # y2) => (r.top + r.height \in { y1, y2 } /\ r.height > 0)
    /\ (y1 = y2) => r.height = 1

\* C18: the region returned for two clicks (x1, y1), (x2, y2) has
\* left = min(x1, x2), top = min(y1, y2), width = max(1, |x2 - x1|) and
\* height = max(1, |y2 - y1|): (50,50),(10,10) give top 10, left 10, width 40,
\* height 40; (10,10),(10,15) give top 10, left 10, width 1, height 5; the
\* clicks in the other order give the same region.
C18_RegionNormalised ==
    main_task = "selected" =>
        /\ IsNormalised(capture_region, click_coords[1][1], click_coords[1][2],
                        click_coords[2][1], click_coords[2][2])
        /\ (click_coords = << << 50, 50 >>, << 10, 10 >> >>) =>
              capture_region = [ top |-> 10, left |-> 10,
                                 width |-> 40, height |-> 40 ]
        /\ (click_coords = << << 10, 10 >>, << 10, 15 >> >>) =>
              capture_region = [ top |-> 10, left |-> 10,
                                 width |-> 1, height |-> 5 ]
        /\ get_screen_region(Swapped(click_coords)) = capture_region

\* the operator clicked the lower right corner first
C18_Witness ==
    /\ main_task = "selected"
    /\ click_coords = << << 50, 50 >>, << 10, 10 >> >>
    /\ capture_region = [ top |-> 10, left |-> 10, width |-> 40, height |-> 40 ]

\* the n-th tick under comparison has its capture id
HasId(n) == minted[n].capture_id # << >>

\* C19: no two ticks of a run get the same capture id, whether they fall in
\* the same second or not and whether the counter has passed 999 or not, and
\* a tick is given its id once: the id it has is never replaced.
C19_CaptureIdsUnique ==
    /\ [](\A m, n \in 1..Len(minted) :
             (m # n /\ HasId(m) /\ HasId(n)) =>
                 minted[m].capture_id # minted[n].capture_id)
    /\ [][\A n \in 1..Len(minted) :
             HasId(n) => minted'[n].capture_id = minted[n].capture_id]_vars

\* ticks 0 and 1000 of one run fall in the same second of the clock and
\* both have their ids
C19_Witness ==
    /\ Len(minted) = 2
    /\ minted[1].timestamp = minted[2].timestamp
    /\ minted[1].counter = 0 /\ minted[2].counter = 1000
    /\ HasId(1) /\ HasId(2)
    /\ minted[1].capture_id # minted[2].capture_id

\* the task with key k ends in this step
Completes(k) == tasks[k].st = "pending" /\ tasks'[k].st = "handled"

\* C20: a record put on the results queue carries the capture id (and the
\* provider) of the task whose completion produced it, that is of the tick
\* that launched the call, and the text stored under that capture id is the
\* text the provider was called with, also when later ticks have started
\* in between.
C20_Correlation ==
    /\ [][\A k \in DOMAIN tasks : Completes(k) =>
             \A i \in (Len(enqueued) + 1)..Len(enqueued') :
                 /\ enqueued'[i].capture_id = k[1]
                 /\ enqueued'[i].model_name = k[2]]_vars
    /\ [](\A i \in 1..Len(enqueued) :
             LET k == << enqueued[i].capture_id, enqueued[i].model_name >>
             IN  /\ k \in DOMAIN tasks
                 /\ tasks[k].st = "handled"
                 /\ k[1] \in DOMAIN capture_scraped_text
                 /\ capture_scraped_text[k[1]] = tasks[k].scraped_text
                 /\ tasks[k].scraped_text = SampleOf(k[1]))

\* the answer to the first sample arrives after the answer to the second
\* one, which has another text, and is filed under the first capture
C20_Witness ==
    /\ Len(enqueued) = 2
    /\ enqueued[1].capture_id = 1 /\ enqueued[2].capture_id = 0
    /\ capture_scraped_text[0] # capture_scraped_text[1]
    /\ tasks[<< 0, enqueued[2].model_name >>].scraped_text
          = capture_scraped_text[0]

\* get_user_input has returned or exited
Answered == main_task # "configuring"

\* C21: with no provider enabled the program ends before the capture loop
\* and the consumer are started, and no tick runs with an empty list of
\* providers.
C21_NoRunWithoutProviders ==
    (Answered /\ models_to_use = << >>) =>
        /\ main_task = "exited"
        /\ dispatcher = "not started"
        /\ consumer = "not started"
        /\ capture_counter = 0
        /\ capture_trace = << >>

\* a key is configured, the operator declined every model, the program is
\* over and nothing was started
C21_Witness ==
    /\ api_keys # {}
    /\ Answered /\ models_to_use = << >>
    /\ main_task = "exited"
    /\ dispatcher = "not started" /\ consumer = "not started"

\* C22: the capture of a tick is bounded by a timeout: a tick whose capture
\* does not return is abandoned and the dispatcher goes on, it does not wait
\* for ever.
C22_CaptureTimesOut == (dispatcher = "capturing") ~> (dispatcher # "capturing")

\* the first capture is in progress and nothing but its return can take a
\* step: no timer, no other task
C22_OnlyTheReturnEndsTheTick ==
    /\ dispatcher = "capturing"
    /\ capture_counter = 0
    /\ ~ENABLED capture_begin
    /\ ~ENABLED handle_results({})
    /\ ~ENABLED (\E k \in DOMAIN tasks : task_done(k, PlainApis))
    /\ ENABLED run_capture_loop({ AnswerTick, BlankTick }, FALSE)

\* the done callback of the invocation k has run
CallbackRan(k) == tasks[k].st = "handled"

\* C23: an invocation whose task ends cancelled still has exactly one record:
\* the done callback never ends without a record put on the queue.
C23_CancelledStillRecorded ==
    \A k \in DOMAIN tasks :
        (CallbackRan(k) /\ tasks[k].result.kind = "cancelled") =>
            Cardinality(RecordsOf(k[1], k[2])) = 1

\* a task ended cancelled, its callback has run and the invocation has no
\* record
C23_CancelledWithoutRecord ==
    \E k \in DOMAIN tasks :
        /\ CallbackRan(k)
        /\ tasks[k].api.kind = "CancelledError"
        /\ tasks[k].result.kind = "cancelled"
        /\ RecordsOf(k[1], k[2]) = {}

Causes == { "missing key", "timeout", "exception" }

\* why the invocation k failed, "none" if it did not fail in one of the
\* three ways
Cause(k) ==
    CASE k[2] = "gemini" /\ "gemini" \notin api_keys -> "missing key"
      [] tasks[k].api.kind = "TimeoutError" -> "timeout"
      [] tasks[k].api.kind = "Exception" -> "exception"
      [] OTHER -> "none"

\* the text t tells the cause
Names(t, cause) ==
    CASE cause = "missing key" -> Contains(t, "API key not configured.")
      [] cause = "timeout" -> Contains(t, "Request timed out.")
      [] cause = "exception" ->
            Contains(t, "Exception") \/ Contains(t, "UnicodeEncodeError")
      [] OTHER -> FALSE

\* C24: a provider timeout, a provider exception and a missing API key each
\* give one record whose text tells that cause and neither of the other
\* two, and the text is an error text, not one formatted as an answer.
C24_FailuresDistinguishable ==
    \A k \in DOMAIN tasks :
        (CallbackRan(k) /\ Cause(k) \in Causes) =>
            /\ Cardinality(RecordsOf(k[1], k[2])) = 1
            /\ \A i \in RecordsOf(k[1], k[2]) :
                  /\ Names(enqueued[i].response_text, Cause(k))
                  /\ \A c \in Causes \ { Cause(k) } :
                        ~Names(enqueued[i].response_text, c)
                  /\ IsErrorText(enqueued[i].response_text)
                  /\ ~FormattedAsAnswer(enqueued[i].response_text)

\* one call of the run timed out and the other raised, and the two records
\* differ
C24_Witness ==
    \E k1, k2 \in DOMAIN tasks :
        /\ CallbackRan(k1) /\ Cause(k1) = "timeout"
        /\ CallbackRan(k2) /\ Cause(k2) = "exception"
        /\ \E i \in RecordsOf(k1[1], k1[2]), j \in RecordsOf(k2[1], k2[2]) :
              /\ enqueued[i].response_text # enqueued[j].response_text
              /\ Names(enqueued[i].response_text, "timeout")
              /\ Names(enqueued[j].response_text, "exception")

\* the order of the sinks in the loop body of handle_results
SinkOrder == << "console", "log", "notify", "email" >>

\* C25: for every record taken from the queue the sinks are invoked in the
\* order console, log, notification, email; console and log for every
\* record whatever the flags are, the notification exactly if notifications
\* are enabled, the email exactly if email is enabled.
C25_SinksInFixedOrder ==
    \A i \in 1..Len(sink_trace) :
        LET sinks == sink_trace[i].sinks
        IN  /\ sinks = SelectSeq(SinkOrder, LAMBDA s : Contains(sinks, s))
            /\ Len(sinks) >= 2 /\ sinks[1] = "console" /\ sinks[2] = "log"
            /\ Contains(sinks, "notify") = notify_enabled
            /\ Contains(sinks, "email") = email_enabled

\* both flags on: a record went to the four sinks in order
C25_Witness ==
    /\ notify_enabled /\ email_enabled
    /\ \E i \in 1..Len(sink_trace) :
          sink_trace[i].sinks = << "console", "log", "notify", "email" >>

\* the email sink is on and has somebody to write to
EmailConfigured == email_enabled /\ email_recipient \notin { None, "" }

\* C26: an email task is created for a record only with email enabled and a
\* non-empty recipient; with email disabled, or the recipient empty or
\* absent, no email task exists at any time and the console, the log and
\* the notification are invoked as the flags say.
C26_EmailOnlyIfConfigured ==
    /\ [][(email_tasks' \ email_tasks # {}) => EmailConfigured]_vars
    /\ [](~EmailConfigured =>
            /\ email_tasks = {}
            /\ \A i \in 1..Len(sink_trace) :
                  sink_trace[i].sinks =
                      << "console", "log" >>
                        \o (IF notify_enabled THEN << "notify" >> ELSE << >>))

\* email is on, the recipient is empty: two records went to the console,
\* the log and the notifier, and no email task was created
C26_Witness ==
    /\ email_enabled /\ email_recipient = ""
    /\ notify_enabled
    /\ Len(sink_trace) = 2
    /\ \A i \in 1..Len(sink_trace) :
          sink_trace[i].sinks = << "console", "log", "notify" >>
    /\ email_tasks = {}

Placeholder == << "Scraped text not available." >>

\* the record at the head of the queue has no entry in the sample table
HeadIsOrphan ==
    /\ results_queue # << >>
    /\ Head(results_queue).capture_id \notin DOMAIN capture_scraped_text

\* C27: delivering a record whose capture id has no entry in the sample
\* table schedules its email with a placeholder for the sample; the record
\* goes to all its sinks and the consumer goes on.
C27_PlaceholderForMissingSample ==
    /\ [][(HeadIsOrphan /\ results_queue' = Tail(results_queue)) =>
            /\ consumer' = "running"
            /\ Contains(sink_trace'[Len(sink_trace')].sinks, "email")
            /\ \E e \in email_tasks' \ email_tasks :
                  /\ e.capture_id = Head(results_queue).capture_id
                  /\ e.model_name = Head(results_queue).model_name
                  /\ e.scraped_text = Placeholder]_vars
    /\ [](\A e \in email_tasks :
            IF e.capture_id \in DOMAIN capture_scraped_text
            THEN e.scraped_text = capture_scraped_text[e.capture_id]
            ELSE e.scraped_text = Placeholder)

\* the email of the record without a sample is scheduled with the
\* placeholder, and a later record with a sample has been delivered too
C27_Witness ==
    /\ \E e \in email_tasks :
          /\ e.capture_id \notin DOMAIN capture_scraped_text
          /\ e.scraped_text = Placeholder
    /\ consumer = "running"
    /\ Len(sink_trace) >= 2
    /\ Contains(sink_trace[1].sinks, "email")
    /\ sink_trace[2].capture_id \in DOMAIN capture_scraped_text

Ellipsis == << ".", ".", "." >>

\* C28: the message given to the notifier is the response itself if the
\* response has at most 200 characters, and otherwise its first 200
\* characters followed by "..."; it never has more than 203 characters.
C28_NotificationBounded ==
    \A i \in 1..Len(sink_trace) :
        Contains(sink_trace[i].sinks, "notify") =>
            /\ Len(sink_trace[i].notified) = 1
            /\ LET message == sink_trace[i].notified[1]
                   response_text == sink_trace[i].response_text
               IN  /\ Len(message) <= 203
                   /\ Len(response_text) <= 200 => message = response_text
                   /\ Len(response_text) > 200 =>
                         /\ Len(message) = 203
                         /\ \A j \in 1..200 : message[j] = response_text[j]
                         /\ SubSeq(message, 201, 203) = Ellipsis

\* a response of 200 characters was passed as it is and one of 250
\* characters was cut to 203
C28_Witness ==
    /\ Len(sink_trace) = 2
    /\ Len(sink_trace[1].response_text) = 200
    /\ sink_trace[1].notified = << sink_trace[1].response_text >>
    /\ Len(sink_trace[2].response_text) = 250
    /\ Len(sink_trace[2].notified[1]) = 203

\* the step is one of process_capture: a tick is added to the history
DispatcherStep == Len(capture_trace') = Len(capture_trace) + 1

\* the step is one of the consumer, of a done callback or of an email task
OtherStep ==
    \/ sink_trace' # sink_trace
    \/ enqueued' # enqueued
    \/ tasks' # tasks /\ ~DispatcherStep
    \/ email_tasks' # email_tasks
    \/ results_queue' # results_queue

\* C29: only a step of process_capture changes the table of samples; the
\* consumer, the done callbacks and the email tasks leave it as it is, and
\* an entry of the table is never removed and never given another text.
C29_TableWrittenByDispatcherOnly ==
    /\ [][(capture_scraped_text' # capture_scraped_text) => DispatcherStep]_vars
    /\ [][OtherStep => capture_scraped_text' = capture_scraped_text]_vars
    /\ [][\A c \in DOMAIN capture_scraped_text :
            /\ c \in DOMAIN capture_scraped_text'
            /\ capture_scraped_text'[c] = capture_scraped_text[c]]_vars

\* two ticks have written their entries, the records of the first have been
\* delivered with their emails, and both entries are there
C29_Witness ==
    /\ DOMAIN capture_scraped_text = { 0, 1 }
    /\ capture_scraped_text[0] = << "Q1" >>
    /\ capture_scraped_text[1] = << "Empty Capture" >>
    /\ Len(sink_trace) = Len(models_to_use)
    /\ \A i \in 1..Len(sink_trace) : Contains(sink_trace[i].sinks, "email")
    /\ tasks # << >> /\ \A k \in DOMAIN tasks : tasks[k].st = "handled"

\* the tasks of a tick were created in the order of the enabled list
LaunchedInListOrder ==
    \A k \in DOMAIN tasks :
        /\ tasks[k].position \in 1..Len(models_to_use)
        /\ models_to_use[tasks[k].position] = k[2]

\* the event loop is between two steps: any task that is ready may go on
LoopIdle == OthersMayRun

\* C30 as stated: the invocations of a tick are launched in the order of
\* the enabled list and their records may reach the queue in any order:
\* whichever invocations are still pending, any of them may be the next
\* to complete, so that every order of completion can happen.
C30_AnyCompletionOrder ==
    /\ LaunchedInListOrder
    /\ LoopIdle =>
          \A k \in PendingTasks : ENABLED task_done(k, PlainApis)

\* the positions in the history of the queue of the record of (c, m)
Arrival(c, m) == RecordsOf(c, m)

\* C30 as the program has it: launch in list order; the record of Gemini
\* may arrive before, between or after the others, a pending invocation may
\* complete next unless it is Perplexity's with ChatGPT's of the same tick
\* still pending, and the record of ChatGPT always arrives before the
\* record of Perplexity of the same tick.
C30_CompletionOrder ==
    /\ LaunchedInListOrder
    /\ LoopIdle =>
          \A k \in PendingTasks :
              \/ ENABLED task_done(k, PlainApis)
              \/ k[2] = "perplexity" /\ << k[1], "chatgpt" >> \in PendingTasks
    /\ \A c \in CaptureIds :
          \A i \in Arrival(c, "chatgpt"), j \in Arrival(c, "perplexity") : i < j
    /\ \A k \in PendingTasks :
          (k[2] = "chatgpt" /\ << k[1], "perplexity" >> \in DOMAIN tasks) =>
              << k[1], "perplexity" >> \in PendingTasks

\* three providers launched Gemini, ChatGPT, Perplexity: the records of the
\* first tick arrived ChatGPT, Perplexity, Gemini
C30_Witness ==
    /\ models_to_use = << "gemini", "chatgpt", "perplexity" >>
    /\ Len(enqueued) >= 3
    /\ enqueued[1].model_name = "chatgpt"
    /\ enqueued[2].model_name = "perplexity"
    /\ enqueued[3].model_name = "gemini"
    /\ \A i \in 1..3 : enqueued[i].capture_id = 0
    /\ tasks[<< 0, "gemini" >>].position = 1
    /\ tasks[<< 0, "perplexity" >>].position = 3

\* the entries of the log before this step hold the block of capture c
BlockWritten(c) ==
    \E j \in 1..Len(log_file) :
        /\ log_file[j].kind = "capture"
        /\ log_file[j].capture_id = c

\* the consumer appends the response entry of a record in this step
ResponseLogged ==
    /\ Len(sink_trace') = Len(sink_trace) + 1
    /\ Len(log_file') = Len(log_file) + 1
    /\ log_file'[Len(log_file')].kind = "response"

Elapsed(n) == capture_trace[n].elapsed

\* C32: the sleep after a tick depends on the duration of that tick alone:
\* a tick that overruns, by however many intervals, is followed by no
\* sleep, and the tick after it is followed by the sleep of its own
\* remainder max(0, interval - elapsed); nothing of the overrun is carried
\* over to later ticks.
C32_NoCatchUp ==
    capture_counter > 0 =>
        LET n == Len(capture_trace)
        IN  /\ Elapsed(n) >= interval => sleep_duration = 0
            /\ Elapsed(n) < interval =>
                  /\ sleep_duration > 0
                  /\ sleep_duration + Elapsed(n) = interval
            /\ (n >= 2 /\ Elapsed(n - 1) >= interval /\ Elapsed(n) < interval) =>
                  (~overrun_warning /\ sleep_duration = interval - Elapsed(n))

\* interval 20: a tick of 65 seconds, then a tick of 5 seconds followed by
\* a sleep of 15
C32_Witness ==
    /\ interval = 20
    /\ Len(capture_trace) = 2
    /\ Elapsed(1) = 65
    /\ Elapsed(2) = 5
    /\ sleep_duration = 15
    /\ ~overrun_warning

MissingKeyText == << "Gemini Error:", "API key not configured." >>

\* C33: a provider whose key is not configured is not among the enabled
\* providers when the loop begins: no task is ever created for it and no
\* missing-key error record is ever put on the queue.
C33_UnconfiguredProviderExcluded ==
    /\ \A i \in 1..Len(models_to_use) : models_to_use[i] \in api_keys
    /\ \A k \in DOMAIN tasks : k[2] \in api_keys
    /\ \A i \in 1..Len(enqueued) :
          /\ enqueued[i].model_name \in api_keys
          /\ enqueued[i].response_text # MissingKeyText
          /\ ~Contains(enqueued[i].response_text, "API key not configured.")

\* the key of Gemini is not set, that of ChatGPT is: two ticks ran with
\* ChatGPT alone and its records were delivered
C33_Witness ==
    /\ api_keys = { "chatgpt" }
    /\ models_to_use = << "chatgpt" >>
    /\ capture_counter = 2
    /\ DOMAIN tasks = { << 0, "chatgpt" >>, << 1, "chatgpt" >> }
    /\ Len(sink_trace) = 2

\* the calls of process_capture that have not returned
InProgress == capture_loop.in_progress

\* a call of process_capture is made in this step
TickStarts == capture_loop'.in_progress \ InProgress # {}

\* C34: at most one process_capture is in progress at any moment, and a
\* call of process_capture is made only when the one before has returned
\* and the sleep after it is over, however long that capture took.
C34_TicksNeverOverlap ==
    /\ [](Cardinality(InProgress) <= 1)
    /\ [](InProgress # {} =>
            (dispatcher = "capturing" /\ ~capture_loop.sleeping))
    /\ [][TickStarts =>
            /\ InProgress = {}
            /\ ~capture_loop.sleeping
            /\ \A c \in capture_loop'.in_progress : c = Len(capture_trace)]_vars

\* the first capture took 65 seconds, it has returned, its sleep is over
\* and the second capture is in progress, alone
C34_Witness ==
    /\ InProgress = { 1 }
    /\ Len(capture_trace) = 1 /\ Elapsed(1) = 65
    /\ ~capture_loop.sleeping
    /\ dispatcher = "capturing"

\* the names of the enabled list that AI_CLIENTS has
KnownEnabled ==
    { models_to_use[i] : i \in 1..Len(models_to_use) } \cap ProviderSet

\* C35: a name of the enabled list that is not a key of AI_CLIENTS gets no
\* task and no record in any tick, and every known provider of the same
\* list gets its one task in every tick that launches, and not more than
\* one record.
C35_UnknownNameLaunchesNothing ==
    /\ \A k \in DOMAIN tasks : k[2] \in ProviderSet
    /\ \A i \in 1..Len(enqueued) : enqueued[i].model_name \in ProviderSet
    /\ \A c \in CaptureIds :
          GoodSample(c) =>
              /\ { k[2] : k \in { t \in DOMAIN tasks : t[1] = c } } = KnownEnabled
              /\ \A m \in KnownEnabled :
                    /\ Cardinality(RecordsOf(c, m)) <= 1
                    /\ tasks[<< c, m >>].st = "handled" =>
                          Cardinality(RecordsOf(c, m)) = 1

\* the list is an unknown name, chatgpt, perplexity: the first tick created
\* the two tasks of the known providers and each has its record
C35_Witness ==
    /\ models_to_use = << UnknownName, "chatgpt", "perplexity" >>
    /\ GoodSample(0)
    /\ { k \in DOMAIN tasks : k[1] = 0 } =
          { << 0, "chatgpt" >>, << 0, "perplexity" >> }
    /\ Cardinality(RecordsOf(0, "chatgpt")) = 1
    /\ Cardinality(RecordsOf(0, "perplexity")) = 1
    /\ RecordsOf(0, UnknownName) = {}

\* the capture id has an entry in the sample table
HasSample(capture_id) == capture_id \in DOMAIN capture_scraped_text

\* C36: the capture id of every task, of every record put on the queue, of
\* every record on the queue and of every record delivered is a key of the
\* sample table, and every email is scheduled with the sample of its
\* capture, never with the placeholder.
C36_QueuedRecordsHaveSamples ==
    /\ [](\A k \in DOMAIN tasks : HasSample(k[1]))
    /\ [](\A i \in 1..Len(enqueued) : HasSample(enqueued[i].capture_id))
    /\ [](\A i \in 1..Len(results_queue) :
            HasSample(results_queue[i].capture_id))
    /\ [](\A i \in 1..Len(sink_trace) : HasSample(sink_trace[i].capture_id))
    /\ [](\A e \in email_tasks :
            /\ HasSample(e.capture_id)
            /\ e.scraped_text = capture_scraped_text[e.capture_id]
            /\ e.scraped_text # Placeholder)
    /\ [][\A e \in email_tasks' \ email_tasks :
            /\ results_queue # << >>
            /\ e.capture_id = Head(results_queue).capture_id
            /\ HasSample(e.capture_id)
            /\ e.scraped_text = capture_scraped_text[e.capture_id]]_vars

\* emails are on, a record of the first tick has been delivered and its
\* email is scheduled with the sample of that tick, while a record of the
\* same tick is still on the queue and a second tick has been captured
C36_Witness ==
    /\ email_enabled
    /\ models_to_use = << "gemini", "chatgpt" >>
    /\ DOMAIN capture_scraped_text = { 0, 1 }
    /\ \E e \in email_tasks :
          /\ e.capture_id = 0
          /\ e.scraped_text = << "Q1" >>
    /\ Len(sink_trace) = 1
    /\ Contains(sink_trace[1].sinks, "email")
    /\ Len(results_queue) = 1
    /\ results_queue[1].capture_id = 0

====
